---- MODULE Spec2Model ----
(***************************************************************************)
(* The batch-translation gateway of src/app.py: the /translate handler,    *)
(* its cache_translation tasks, the process-wide semaphore, the Redis      *)
(* store and the translation backend of src/models.py.                     *)
(*                                                                         *)
(* Scheduling is asyncio's: a handler runs without interruption from one   *)
(* await that suspends to the next.  One action is one such stretch.       *)
(* An uncontended "async with cache_semaphore" does not suspend, so        *)
(* taking the slot and issuing the store command are one step.             *)
(***************************************************************************)
EXTENDS Integers, Sequences, FiniteSets, TLC

(* ------------------------------ bounds -------------------------------- *)
\* Concurrently handled requests (coroutines of translate).
NumTasks == 2
\* Longest texts / value_ids list of a request.
MaxItems == 3
\* Longest list of a request that is handled while another one is running.
MaxOverlapItems == 2

(* ------------------------- program constants -------------------------- *)
\* src/app.py:205 sets batch_size = 16 and src/app.py:24 builds
\* asyncio.Semaphore(100).  The model keeps both as named constants and
\* instantiates them at 2, so that a request of MaxItems items spans more
\* than one batch and NumTasks requests can exhaust the semaphore.
batch_size == 2
SEMAPHORE_VALUE == 2
\* src/app.py:269, the expiry handed to setex: 30 * 24 * 3600.
SETEX_SECONDS == 2592000
\* src/config.py:11, the cache-TTL option: int(os.getenv("CACHE_TTL",
\* "3600")), at its default.  src/app.py does not read it.
CACHE_TTL == 3600

Tasks == 1..NumTasks

\* src/config.py:15-39, cut down to two codes; "xx" is a code outside it.
SUPPORTED_LANGUAGES == {"en", "es"}
SourceLocales == {"en", "xx"}
TargetLocales == {"es", "xx"}

\* Request texts; the backend answers "" with "" (an empty translation).
Texts == {"hi", "yo", ""}
\* Caller ids.  The handler only compares them, so a list is taken up to
\* renaming: the id at position k is one of 1..k.
ValueIds == 1..MaxItems
ValueIdLists == {s \in UNION {[1..k -> ValueIds] : k \in 0..MaxItems} :
                   \A k \in 1..Len(s) : s[k] <= k}

\* str(e) of the exceptions translate_batch lets through.
Errors == {"out of memory"}

SeqsUpTo(S, n) == UNION {[1..k -> S] : k \in 0..n}

\* TranslationRequest bodies the environment may send.
Requests ==
  [texts : SeqsUpTo(Texts, MaxItems), value_ids : ValueIdLists,
   source_locale : SourceLocales, target_locale : TargetLocales]

(* ------------------------------ helpers ------------------------------- *)
\* Optional[str]: <<>> is None, <<s>> is the string s.
None == <<>>
Some(s) == <<s>>
\* Python truthiness of an Optional[str]: None and "" are falsy.
Truthy(o) == o # None /\ o[1] # ""

\* get_cache_key: "translation:" + md5("text:source:target").  The digest
\* is taken as injective on its content, which stands for it.
get_cache_key(text, source_lang, target_lang) ==
  "translation:" \o text \o ":" \o source_lang \o ":" \o target_lang

\* One element of TranslationModel.translate_batch's result: the backend is
\* a deterministic function of (text, source, target).
translation_text(text, source_lang, target_lang) ==
  IF text = "" THEN "" ELSE target_lang \o "<" \o text

translate_batch(texts, source_lang, target_lang) ==
  [k \in 1..Len(texts) |-> translation_text(texts[k], source_lang, target_lang)]

\* f"[Batch Error: {str(e)}]"
BatchError(e) == "[Batch Error: " \o e \o "]"

\* dict item assignment d[key] = val
DictSet(d, key, val) == (key :> val) @@ d
EmptyDict == <<>>

VARIABLES
  is_loaded,        \* translation_model.is_loaded
  redis_client,     \* FALSE is None, TRUE is a client
  store,            \* the Redis keyspace: key -> [value, ex]
  cache_semaphore,  \* free slots (asyncio.Semaphore._value)
  task,             \* per coroutine of translate: its locals and position
  started,          \* lifespan's startup has run
  startup_ping,     \* how lifespan's ping ended: "none", "ok" or "failed"
  health            \* the coroutine of health_check: its position and answer

vars == <<is_loaded, redis_client, store, cache_semaphore, task, started, startup_ping, health>>

\* Locals of a translate coroutine that has not been called.
IdleTask ==
  [pc |-> "idle", request |-> [texts |-> <<>>, value_ids |-> <<>>,
                               source_locale |-> "", target_locale |-> ""],
   status |-> 0, translations |-> EmptyDict, cached_count |-> 0,
   translated_count |-> 0, to_translate |-> <<>>, i |-> 0,
   batch |-> <<>>, cache_tasks |-> <<>>,
   \* history of the coroutine, read by the properties only
   cached_results |-> <<>>, read |-> "none", cold |-> FALSE, stored |-> {},
   calls |-> <<>>, acquires |-> 0, reads |-> 0, writes |-> 0,
   write_failed |-> FALSE, placeholders |-> {},
   round |-> 0, first |-> None,
   \* no entry has expired since the request arrived (or, in round 2, since
   \* the request it repeats arrived)
   intact |-> TRUE]

\* health_check has not been called
IdleHealth == [pc |-> "idle", redis_status |-> "", loaded |-> FALSE]

Init ==
  /\ is_loaded = FALSE
  /\ redis_client = FALSE
  /\ store = <<>>
  /\ cache_semaphore = SEMAPHORE_VALUE
  /\ task = [t \in Tasks |-> IdleTask]
  /\ started = FALSE
  /\ startup_ping = "none"
  /\ health = IdleHealth

(* -------------------- translate, src/app.py:140-257 ------------------- *)
Min(a, b) == IF a < b THEN a ELSE b

\* [(idx, text, value_id) for idx, (text, value_id) in enumerate(zip(...))]
\* (positions count from 1 here, from 0 in the source)
AllItems(req) ==
  [idx \in 1..Min(Len(req.texts), Len(req.value_ids)) |->
     <<idx, req.texts[idx], req.value_ids[idx]>>]

\* lines 175-181: the cache keys of the request, in input order
cache_keys(req) ==
  [idx \in 1..Min(Len(req.texts), Len(req.value_ids)) |->
     get_cache_key(req.texts[idx], req.source_locale, req.target_locale)]

\* lines 176-181: the dict the first loop fills with text_to_value_id[text] =
\* value_id, a later item of the same text replacing an earlier one.  The
\* handler never reads it: the translate queue carries (idx, text, value_id).
text_to_value_id(req) ==
  LET n == Min(Len(req.texts), Len(req.value_ids))
      last(x) == CHOOSE k \in 1..n :
                   /\ req.texts[k] = x
                   /\ \A m \in 1..n : req.texts[m] = x => m <= k
  IN [x \in {req.texts[k] : k \in 1..n} |-> req.value_ids[last(x)]]

\* redis_client.mget(keys): one Optional[str] per key, in order
mget(keys) ==
  [k \in 1..Len(keys) |->
     IF keys[k] \in DOMAIN store THEN Some(store[keys[k]].value) ELSE None]

\* mutant: a miss is put at the head of the translate queue
RECURSIVE ResolveLoopReversed(_, _, _)
ResolveLoopReversed(l, cached_results, idx) ==
  IF idx > Min(Len(l.request.texts), Len(cached_results)) THEN l
  ELSE LET text == l.request.texts[idx]
           value_id == l.request.value_ids[idx]
           cached_translation == cached_results[idx]
       IN IF Truthy(cached_translation)
          THEN ResolveLoopReversed(
                 [l EXCEPT !.translations = DictSet(@, value_id, cached_translation[1]),
                           !.cached_count = @ + 1],
                 cached_results, idx + 1)
          ELSE ResolveLoopReversed(
                 [l EXCEPT !.to_translate = <<<<idx, text, value_id>>>> \o @],
                 cached_results, idx + 1)

\* mutant: a cache hit is put in the translate queue as well
RECURSIVE ResolveLoopQueuesHits(_, _, _)
ResolveLoopQueuesHits(l, cached_results, idx) ==
  IF idx > Min(Len(l.request.texts), Len(cached_results)) THEN l
  ELSE LET text == l.request.texts[idx]
           value_id == l.request.value_ids[idx]
           cached_translation == cached_results[idx]
       IN IF Truthy(cached_translation)
          THEN ResolveLoopQueuesHits(
                 [l EXCEPT !.translations = DictSet(@, value_id, cached_translation[1]),
                           !.cached_count = @ + 1,
                           !.to_translate = Append(@, <<idx, text, value_id>>)],
                 cached_results, idx + 1)
          ELSE ResolveLoopQueuesHits(
                 [l EXCEPT !.to_translate = Append(@, <<idx, text, value_id>>)],
                 cached_results, idx + 1)

\* lines 190-195: the classification loop over zip(texts, value_ids,
\* cached_results), from position idx on
RECURSIVE ResolveLoop(_, _, _)
ResolveLoop(l, cached_results, idx) ==
  IF idx > Min(Len(l.request.texts), Len(cached_results)) THEN l
  ELSE LET text == l.request.texts[idx]
           value_id == l.request.value_ids[idx]
           cached_translation == cached_results[idx]
       IN IF Truthy(cached_translation)
          THEN ResolveLoop(
                 [l EXCEPT !.translations = DictSet(@, value_id, cached_translation[1]),
                           !.cached_count = @ + 1],
                 cached_results, idx + 1)
          ELSE ResolveLoop(
                 [l EXCEPT !.to_translate = Append(@, <<idx, text, value_id>>)],
                 cached_results, idx + 1)

\* lines 211-229: the head of the batch loop at offset l.i.  With items left
\* it slices the batch and hands it to the backend (asyncio.to_thread);
\* without, the handler returns the response (lines 253-257).
BatchLoop(l) ==
  IF l.i < Len(l.to_translate)
  THEN LET batch == SubSeq(l.to_translate, l.i + 1,
                           Min(l.i + batch_size, Len(l.to_translate)))
           batch_texts == [k \in 1..Len(batch) |-> batch[k][2]]
       IN [l EXCEPT !.pc = "to_thread", !.batch = batch, !.cache_tasks = <<>>,
                    !.calls = Append(@, [batch |-> batch, batch_texts |-> batch_texts,
                                         result |-> "pending"])]
  ELSE [l EXCEPT !.pc = "done", !.status = 200, !.batch = <<>>,
                 !.cache_tasks = <<>>]

\* mutant: the loop variable advances by one item less than a batch
NextBatchShort(l) == BatchLoop([l EXCEPT !.i = @ + batch_size - 1])

\* the loop variable advances by batch_size
NextBatch(l) == BatchLoop([l EXCEPT !.i = @ + batch_size])

\* mutant: the target locale is not validated
ValidateNoTarget(req) ==
  IF Len(req.texts) # Len(req.value_ids) THEN 400
  ELSE IF req.source_locale \notin SUPPORTED_LANGUAGES THEN 400
  ELSE 0

\* lines 143-159: the status the validation raises, 0 when it passes
Validate(req) ==
  IF Len(req.texts) # Len(req.value_ids) THEN 400
  ELSE IF req.source_locale \notin SUPPORTED_LANGUAGES THEN 400
  ELSE IF req.target_locale \notin SUPPORTED_LANGUAGES THEN 400
  ELSE 0

\* lines 142-202, from the call of the handler to its first suspension;
\* l0 holds the request and fresh locals
Enter(t, l0) ==
  LET req == l0.request IN
  IF Validate(req) # 0
  THEN /\ task' = [task EXCEPT ![t] = [l0 EXCEPT !.pc = "done", !.status = Validate(req)]]
       /\ UNCHANGED cache_semaphore
  ELSE IF ~is_loaded
  THEN /\ task' = [task EXCEPT ![t] = [l0 EXCEPT !.pc = "done", !.status = 503]]
       /\ UNCHANGED cache_semaphore
  ELSE IF redis_client
  THEN IF cache_semaphore > 0
       THEN /\ cache_semaphore' = cache_semaphore - 1
            /\ task' = [task EXCEPT ![t] = [l0 EXCEPT !.pc = "mget",
                                                      !.acquires = @ + 1,
                                                      !.reads = @ + 1]]
       ELSE /\ task' = [task EXCEPT ![t] = [l0 EXCEPT !.pc = "acquire"]]
            /\ UNCHANGED cache_semaphore
  ELSE /\ task' = [task EXCEPT ![t] =
                     BatchLoop([l0 EXCEPT !.to_translate = AllItems(req),
                                          !.read = "skipped"])]
       /\ UNCHANGED cache_semaphore

\* The environment.  Task 1 takes any request when no other request is being
\* handled.  Requests that run next to each other are short and share their
\* texts (and so their cache keys): the k-th text is "hi" or "yo" by turns,
\* with value_id k.
OverlapRequests ==
  {[texts |-> [k \in 1..n |-> IF k % 2 = 1 THEN "hi" ELSE "yo"],
    value_ids |-> [k \in 1..n |-> k],
    source_locale |-> s, target_locale |-> g] :
     n \in 0..MaxOverlapItems,
     s \in SourceLocales \cap SUPPORTED_LANGUAGES,
     g \in TargetLocales \cap SUPPORTED_LANGUAGES}

Alone(t) == t = 1 /\ \A u \in Tasks \ {t} : task[u].pc = "idle"

Admissible(t) ==
  IF Alone(t) THEN Requests
  ELSE IF \A u \in Tasks \ {t} :
            task[u].pc = "idle" \/ task[u].request \in OverlapRequests
       THEN OverlapRequests
       ELSE {}

\* POST /translate arrives with body req
translate(t, req) ==
  /\ task[t].pc = "idle"
  /\ Enter(t, [IdleTask EXCEPT !.request = req, !.round = 1])
  /\ UNCHANGED <<is_loaded, redis_client, store, started, startup_ping, health>>

\* the environment sends task t one of the requests it may take
Arrive(t) ==
  /\ task[t].pc = "idle"
  /\ \E req \in Admissible(t) : translate(t, req)

\* line 186: a coroutine suspended in "async with cache_semaphore" is admitted
AcquireRead(t) ==
  /\ task[t].pc = "acquire"
  /\ cache_semaphore > 0
  /\ cache_semaphore' = cache_semaphore - 1
  /\ task' = [task EXCEPT ![t].pc = "mget", ![t].acquires = @ + 1, ![t].reads = @ + 1]
  /\ UNCHANGED <<is_loaded, redis_client, store, started, startup_ping, health>>

\* mutant: the slot of the bulk read is kept while the batches are handled
MgetReturnHolds(t) ==
  /\ task[t].pc = "mget"
  /\ LET l == task[t]
         cached_results == mget(cache_keys(l.request))
         l1 == ResolveLoop([l EXCEPT !.cached_results = cached_results,
                                     !.stored = {k \in 1..Len(cached_results) :
                                                   cached_results[k] # None},
                                     !.read = "ok",
                                     !.cold = (DOMAIN store = {})],
                           cached_results, 1)
     IN task' = [task EXCEPT ![t] = BatchLoop(l1)]
  /\ UNCHANGED <<is_loaded, redis_client, store, cache_semaphore, started,
                 startup_ping, health>>

\* lines 188-212: mget returns its results; the items are classified, the
\* slot is released and the first batch goes to the backend
MgetReturn(t) ==
  /\ task[t].pc = "mget"
  /\ LET l == task[t]
         cached_results == mget(cache_keys(l.request))
         l1 == ResolveLoop([l EXCEPT !.cached_results = cached_results,
                                     !.stored = {k \in 1..Len(cached_results) :
                                                   cached_results[k] # None},
                                     !.read = "ok",
                                     !.cold = (DOMAIN store = {})],
                           cached_results, 1)
     IN task' = [task EXCEPT ![t] = BatchLoop(l1)]
  /\ cache_semaphore' = cache_semaphore + 1
  /\ UNCHANGED <<is_loaded, redis_client, store, started, startup_ping, health>>

\* mutant: the except branch leaves the translate queue as it is
MgetFailNoFallback(t) ==
  /\ task[t].pc = "mget"
  /\ task' = [task EXCEPT ![t] =
                BatchLoop([task[t] EXCEPT
                             !.stored = {k \in 1..Len(task[t].request.texts) :
                                           cache_keys(task[t].request)[k] \in DOMAIN store},
                             !.read = "failed"])]
  /\ cache_semaphore' = cache_semaphore + 1
  /\ UNCHANGED <<is_loaded, redis_client, store, started, startup_ping, health>>

\* mutant: the slot is not released when mget raises
MgetFailLeak(t) ==
  /\ task[t].pc = "mget"
  /\ task' = [task EXCEPT ![t] =
                BatchLoop([task[t] EXCEPT
                             !.to_translate = AllItems(task[t].request),
                             !.stored = {k \in 1..Len(task[t].request.texts) :
                                           cache_keys(task[t].request)[k] \in DOMAIN store},
                             !.read = "failed"])]
  /\ UNCHANGED <<is_loaded, redis_client, store, cache_semaphore, started,
                 startup_ping, health>>

\* lines 196-199: mget raises; every item goes to the translate queue
MgetFail(t) ==
  /\ task[t].pc = "mget"
  /\ task' = [task EXCEPT ![t] =
                BatchLoop([task[t] EXCEPT
                             !.to_translate = AllItems(task[t].request),
                             !.stored = {k \in 1..Len(task[t].request.texts) :
                                           cache_keys(task[t].request)[k] \in DOMAIN store},
                             !.read = "failed"])]
  /\ cache_semaphore' = cache_semaphore + 1
  /\ UNCHANGED <<is_loaded, redis_client, store, started, startup_ping, health>>

\* mutant: the caller id of a translated item is looked up by its text
RECURSIVE ResultLoopByText(_, _, _)
ResultLoopByText(l, batch_translations, k) ==
  IF k > Min(Len(l.batch), Len(batch_translations)) THEN l
  ELSE LET text == l.batch[k][2]
           value_id == text_to_value_id(l.request)[text]
           translated_text == batch_translations[k]
           l1 == [l EXCEPT !.translations = DictSet(@, value_id, translated_text),
                           !.translated_count = @ + 1]
           cache_key == get_cache_key(text, l.request.source_locale,
                                      l.request.target_locale)
       IN ResultLoopByText(
            IF redis_client /\ translated_text # ""
            THEN [l1 EXCEPT !.cache_tasks =
                    Append(@, [cache_key |-> cache_key,
                               translated_text |-> translated_text,
                               value_id |-> value_id, pc |-> "created"])]
            ELSE l1,
            batch_translations, k + 1)

\* mutant: a cache task is created for an empty translation too
RECURSIVE ResultLoopCachesEmpty(_, _, _)
ResultLoopCachesEmpty(l, batch_translations, k) ==
  IF k > Min(Len(l.batch), Len(batch_translations)) THEN l
  ELSE LET text == l.batch[k][2]
           value_id == l.batch[k][3]
           translated_text == batch_translations[k]
           l1 == [l EXCEPT !.translations = DictSet(@, value_id, translated_text),
                           !.translated_count = @ + 1]
           cache_key == get_cache_key(text, l.request.source_locale,
                                      l.request.target_locale)
       IN ResultLoopCachesEmpty(
            IF redis_client
            THEN [l1 EXCEPT !.cache_tasks =
                    Append(@, [cache_key |-> cache_key,
                               translated_text |-> translated_text,
                               value_id |-> value_id, pc |-> "created"])]
            ELSE l1,
            batch_translations, k + 1)

\* lines 233-240: the loop over zip(batch, batch_translations), from k on
RECURSIVE ResultLoop(_, _, _)
ResultLoop(l, batch_translations, k) ==
  IF k > Min(Len(l.batch), Len(batch_translations)) THEN l
  ELSE LET text == l.batch[k][2]
           value_id == l.batch[k][3]
           translated_text == batch_translations[k]
           l1 == [l EXCEPT !.translations = DictSet(@, value_id, translated_text),
                           !.translated_count = @ + 1]
           cache_key == get_cache_key(text, l.request.source_locale,
                                      l.request.target_locale)
       IN ResultLoop(
            IF redis_client /\ translated_text # ""
            THEN [l1 EXCEPT !.cache_tasks =
                    Append(@, [cache_key |-> cache_key,
                               translated_text |-> translated_text,
                               value_id |-> value_id, pc |-> "created"])]
            ELSE l1,
            batch_translations, k + 1)

\* mutant: the except branch counts a placeholder as a translation
RECURSIVE ErrorLoopCounted(_, _, _)
ErrorLoopCounted(l, e, k) ==
  IF k > Len(l.batch) THEN l
  ELSE LET idx == l.batch[k][1]
           value_id == l.batch[k][3]
       IN IF value_id \notin DOMAIN l.translations
          THEN ErrorLoopCounted(
                 [l EXCEPT !.translations = DictSet(@, value_id, BatchError(e)),
                           !.placeholders = @ \cup {idx},
                           !.translated_count = @ + 1],
                 e, k + 1)
          ELSE ErrorLoopCounted(l, e, k + 1)

\* mutant: the except branch stops after the first item of the batch
ErrorLoopFirstOnly(l, e, k) ==
  IF k > Len(l.batch) THEN l
  ELSE LET idx == l.batch[k][1]
           value_id == l.batch[k][3]
       IN IF value_id \notin DOMAIN l.translations
          THEN [l EXCEPT !.translations = DictSet(@, value_id, BatchError(e)),
                         !.placeholders = @ \cup {idx}]
          ELSE l

\* mutant: the except branch writes the placeholder over an existing entry
RECURSIVE ErrorLoopOverwrite(_, _, _)
ErrorLoopOverwrite(l, e, k) ==
  IF k > Len(l.batch) THEN l
  ELSE ErrorLoopOverwrite(
         [l EXCEPT !.translations = DictSet(@, l.batch[k][3], BatchError(e)),
                   !.placeholders = @ \cup {l.batch[k][1]}],
         e, k + 1)

\* lines 249-251: the loop of the except branch, from k on
RECURSIVE ErrorLoop(_, _, _)
ErrorLoop(l, e, k) ==
  IF k > Len(l.batch) THEN l
  ELSE LET idx == l.batch[k][1]
           value_id == l.batch[k][3]
       IN IF value_id \notin DOMAIN l.translations
          THEN ErrorLoop([l EXCEPT !.translations = DictSet(@, value_id, BatchError(e)),
                                   !.placeholders = @ \cup {idx}],
                         e, k + 1)
          ELSE ErrorLoop(l, e, k + 1)

\* the outcome of the backend call in flight, for the properties
Outcome(l, result) == [l EXCEPT !.calls[Len(l.calls)].result = result]

\* lines 224-244: translate_batch returns; results are merged, the cache
\* tasks are created and gathered (or, without any, the next batch starts)
BackendReturn(t) ==
  /\ task[t].pc = "to_thread"
  /\ LET l == task[t]
         batch_texts == [k \in 1..Len(l.batch) |-> l.batch[k][2]]
         batch_translations == translate_batch(batch_texts, l.request.source_locale,
                                               l.request.target_locale)
         l1 == ResultLoop(Outcome(l, "ok"), batch_translations, 1)
     IN task' = [task EXCEPT ![t] =
                   IF l1.cache_tasks # <<>> THEN [l1 EXCEPT !.pc = "gather"]
                   ELSE NextBatch(l1)]
  /\ UNCHANGED <<is_loaded, redis_client, store, cache_semaphore, started, startup_ping, health>>

\* lines 246-251: translate_batch raises e
BackendFail(t, e) ==
  /\ task[t].pc = "to_thread"
  /\ task' = [task EXCEPT ![t] = NextBatch(ErrorLoop(Outcome(task[t], "error"), e, 1))]
  /\ UNCHANGED <<is_loaded, redis_client, store, cache_semaphore, started, startup_ping, health>>

(* ---------------- cache_translation, src/app.py:260-274 --------------- *)
\* mutant: gather returns once some cache task has finished
GatheredAny(l) ==
  IF \E j \in 1..Len(l.cache_tasks) : l.cache_tasks[j].pc = "finished"
  THEN NextBatch(l) ELSE l

\* line 244: gather returns once every cache task has finished
Gathered(l) ==
  IF \A j \in 1..Len(l.cache_tasks) : l.cache_tasks[j].pc = "finished"
  THEN NextBatch(l) ELSE l

\* mutant: the cache task issues setex without waiting for a free slot
CacheStartUngated(t, j) ==
  /\ task[t].pc = "gather"
  /\ j \in 1..Len(task[t].cache_tasks)
  /\ task[t].cache_tasks[j].pc = "created"
  /\ cache_semaphore' = cache_semaphore - 1
  /\ task' = [task EXCEPT ![t].cache_tasks[j].pc = "setex",
                          ![t].acquires = @ + 1,
                          ![t].writes = @ + 1]
  /\ UNCHANGED <<is_loaded, redis_client, store, started, startup_ping, health>>

\* lines 262-267: cache task j of request t runs up to its setex; it
\* returns at once without a client, and waits while the semaphore is locked
CacheStart(t, j) ==
  /\ task[t].pc = "gather"
  /\ j \in 1..Len(task[t].cache_tasks)
  /\ task[t].cache_tasks[j].pc = "created"
  /\ IF ~redis_client
     THEN /\ task' = [task EXCEPT ![t] =
                        Gathered([task[t] EXCEPT !.cache_tasks[j].pc = "finished"])]
          /\ UNCHANGED cache_semaphore
     ELSE /\ cache_semaphore > 0
          /\ cache_semaphore' = cache_semaphore - 1
          /\ task' = [task EXCEPT ![t].cache_tasks[j].pc = "setex",
                                  ![t].acquires = @ + 1,
                                  ![t].writes = @ + 1]
  /\ UNCHANGED <<is_loaded, redis_client, store, started, startup_ping, health>>

\* mutant: the write is acknowledged but no entry is stored
SetexReturnDropped(t, j) ==
  /\ task[t].pc = "gather"
  /\ j \in 1..Len(task[t].cache_tasks)
  /\ task[t].cache_tasks[j].pc = "setex"
  /\ cache_semaphore' = cache_semaphore + 1
  /\ task' = [task EXCEPT ![t] =
                Gathered([task[t] EXCEPT !.cache_tasks[j].pc = "finished"])]
  /\ UNCHANGED <<is_loaded, redis_client, store, started, startup_ping, health>>

\* mutant: a write to a key the store holds appends to the entry
SetexReturnAppend(t, j) ==
  /\ task[t].pc = "gather"
  /\ j \in 1..Len(task[t].cache_tasks)
  /\ task[t].cache_tasks[j].pc = "setex"
  /\ LET key == task[t].cache_tasks[j].cache_key
         text == task[t].cache_tasks[j].translated_text
     IN store' = DictSet(store, key,
                         [value |-> IF key \in DOMAIN store
                                    THEN store[key].value \o text ELSE text,
                          ex |-> SETEX_SECONDS])
  /\ cache_semaphore' = cache_semaphore + 1
  /\ task' = [task EXCEPT ![t] =
                Gathered([task[t] EXCEPT !.cache_tasks[j].pc = "finished"])]
  /\ UNCHANGED <<is_loaded, redis_client, started, startup_ping, health>>

\* lines 267-272: setex succeeds; the entry is (over)written with its expiry
SetexReturn(t, j) ==
  /\ task[t].pc = "gather"
  /\ j \in 1..Len(task[t].cache_tasks)
  /\ task[t].cache_tasks[j].pc = "setex"
  /\ store' = DictSet(store, task[t].cache_tasks[j].cache_key,
                      [value |-> task[t].cache_tasks[j].translated_text,
                       ex |-> SETEX_SECONDS])
  /\ cache_semaphore' = cache_semaphore + 1
  /\ task' = [task EXCEPT ![t] =
                Gathered([task[t] EXCEPT !.cache_tasks[j].pc = "finished"])]
  /\ UNCHANGED <<is_loaded, redis_client, started, startup_ping, health>>

\* mutant: the slot is not released when setex raises
SetexFailLeak(t, j) ==
  /\ task[t].pc = "gather"
  /\ j \in 1..Len(task[t].cache_tasks)
  /\ task[t].cache_tasks[j].pc = "setex"
  /\ task' = [task EXCEPT ![t] =
                Gathered([task[t] EXCEPT !.cache_tasks[j].pc = "finished",
                                         !.write_failed = TRUE])]
  /\ UNCHANGED <<is_loaded, redis_client, store, cache_semaphore, started, startup_ping, health>>

\* lines 273-274: setex raises; the error is logged and dropped
SetexFail(t, j) ==
  /\ task[t].pc = "gather"
  /\ j \in 1..Len(task[t].cache_tasks)
  /\ task[t].cache_tasks[j].pc = "setex"
  /\ cache_semaphore' = cache_semaphore + 1
  /\ task' = [task EXCEPT ![t] =
                Gathered([task[t] EXCEPT !.cache_tasks[j].pc = "finished",
                                         !.write_failed = TRUE])]
  /\ UNCHANGED <<is_loaded, redis_client, store, started, startup_ping, health>>

(* --------------------- lifespan, src/app.py:27-63 --------------------- *)
\* mutant: the except branch of the startup ping keeps the client
lifespanKeepsClient(ping_ok) ==
  /\ ~started
  /\ \A t \in Tasks : task[t].pc = "idle"
  /\ started' = TRUE
  /\ is_loaded' = TRUE
  /\ redis_client' = TRUE
  /\ startup_ping' = IF ping_ok THEN "ok" ELSE "failed"
  /\ UNCHANGED <<store, cache_semaphore, task, health>>

\* load_model succeeds (models.py:22), then the client is built and pinged;
\* when the ping raises, redis_client is set back to None (lines 58-61)
lifespan(ping_ok) ==
  /\ ~started
  /\ \A t \in Tasks : task[t].pc = "idle"
  /\ started' = TRUE
  /\ is_loaded' = TRUE
  /\ redis_client' = ping_ok
  /\ startup_ping' = IF ping_ok THEN "ok" ELSE "failed"
  /\ UNCHANGED <<store, cache_semaphore, task, health>>

\* load_model raises (models.py:24-27): startup stops before the client
lifespan_load_error ==
  /\ ~started
  /\ \A t \in Tasks : task[t].pc = "idle"
  /\ started' = TRUE
  /\ is_loaded' = FALSE
  /\ UNCHANGED <<redis_client, store, cache_semaphore, task, startup_ping, health>>

(* ------------------- health_check, src/app.py:115-136 ----------------- *)
\* The environment probes the health while at most one request (task 1's)
\* is being handled.
ProbeAdmissible == \A u \in Tasks \ {1} : task[u].pc = "idle"

\* lines 118-125: GET /health arrives.  With a client the handler awaits
\* ping (it does not enter cache_semaphore); without one it answers at once.
health_check ==
  /\ health.pc = "idle"
  /\ ProbeAdmissible
  /\ health' = IF redis_client
                THEN [pc |-> "ping", redis_status |-> "connected", loaded |-> FALSE]
                ELSE [pc |-> "done", redis_status |-> "not initialized",
                      loaded |-> is_loaded]
  /\ UNCHANGED <<is_loaded, redis_client, store, cache_semaphore, task, started, startup_ping>>

\* lines 121, 127-136: ping returns and the answer is built
PingReturn ==
  /\ health.pc = "ping"
  /\ health' = [health EXCEPT !.pc = "done", !.loaded = is_loaded]
  /\ UNCHANGED <<is_loaded, redis_client, store, cache_semaphore, task, started, startup_ping>>

\* lines 122-123, 127-136: ping raises
PingFail ==
  /\ health.pc = "ping"
  /\ health' = [health EXCEPT !.pc = "done", !.redis_status = "disconnected",
                              !.loaded = is_loaded]
  /\ UNCHANGED <<is_loaded, redis_client, store, cache_semaphore, task, started, startup_ping>>

\* the answer has been sent
HealthReset ==
  /\ health.pc = "done"
  /\ health' = IdleHealth
  /\ UNCHANGED <<is_loaded, redis_client, store, cache_semaphore, task, started, startup_ping>>

(* ----------------------------- environment ---------------------------- *)
\* the response (or the HTTP error) has been sent; the locals are dropped
Reset(t) ==
  /\ task[t].pc = "done"
  /\ task' = [task EXCEPT ![t] = IdleTask]
  /\ UNCHANGED <<is_loaded, redis_client, store, cache_semaphore, started, startup_ping, health>>

\* every backend call and every cache write of the request succeeded, after
\* a bulk read that found the store empty
CleanCold(l) ==
  /\ l.read = "ok" /\ l.cold /\ ~l.write_failed
  /\ \A c \in 1..Len(l.calls) : l.calls[c].result = "ok"

\* the client repeats a request that was just served cold and clean
Reissue(t) ==
  /\ task[t].pc = "done"
  /\ task[t].status = 200
  /\ task[t].round = 1
  /\ CleanCold(task[t])
  /\ Alone(t)
  /\ Enter(t, [IdleTask EXCEPT
                 !.request = task[t].request, !.round = 2,
                 !.intact = task[t].intact,
                 !.first = Some([translations |-> task[t].translations,
                                 cached_count |-> task[t].cached_count,
                                 translated_count |-> task[t].translated_count])])
  /\ UNCHANGED <<is_loaded, redis_client, store, started, startup_ping, health>>

\* Redis drops an entry whose expiry has passed
Expire(key) ==
  /\ key \in DOMAIN store
  /\ store' = [k \in DOMAIN store \ {key} |-> store[k]]
  /\ task' = [t \in Tasks |-> IF task[t].pc # "idle"
                              THEN [task[t] EXCEPT !.intact = FALSE] ELSE task[t]]
  /\ UNCHANGED <<is_loaded, redis_client, cache_semaphore, started, startup_ping, health>>

Next ==
  \/ \E ping_ok \in BOOLEAN : lifespan(ping_ok)
  \/ lifespan_load_error
  \/ \E t \in Tasks : Arrive(t)
  \/ \E t \in Tasks : AcquireRead(t)
  \/ \E t \in Tasks : MgetReturn(t)
  \/ \E t \in Tasks : MgetFail(t)
  \/ \E t \in Tasks : BackendReturn(t)
  \/ \E t \in Tasks : \E e \in Errors : BackendFail(t, e)
  \/ \E t \in Tasks : \E j \in 1..batch_size : CacheStart(t, j)
  \/ \E t \in Tasks : \E j \in 1..batch_size : SetexReturn(t, j)
  \/ \E t \in Tasks : \E j \in 1..batch_size : SetexFail(t, j)
  \/ \E t \in Tasks : Reset(t)
  \/ \E t \in Tasks : Reissue(t)
  \/ \E key \in DOMAIN store : Expire(key)

Spec == Init /\ [][Next]_vars

\* The program with a semaphore of any capacity from 1 to SEMAPHORE_VALUE
\* (asyncio.Semaphore(n) at src/app.py:24).
InitAnyCapacity ==
  /\ is_loaded = FALSE
  /\ redis_client = FALSE
  /\ store = <<>>
  /\ cache_semaphore \in 1..SEMAPHORE_VALUE
  /\ task = [t \in Tasks |-> IdleTask]
  /\ started = FALSE
  /\ startup_ping = "none"
  /\ health = IdleHealth

CapacitySpec == InitAnyCapacity /\ [][Next]_vars

\* The program with its health endpoint in use.  health_check reads
\* redis_client and is_loaded and writes nothing the other handlers read, so
\* the properties of translate are checked without it.
NextProbed ==
  \/ Next
  \/ health_check
  \/ PingReturn
  \/ PingFail
  \/ HealthReset

ProbedSpec == Init /\ [][NextProbed]_vars

(* ======================= what the properties read ===================== *)
NItems(l) == Len(l.request.texts)
Positions(l) == 1..NItems(l)
\* the handler returned a TranslationResponse
Responded(l) == l.pc = "done" /\ l.status = 200
\* positions the bulk read returned a usable value for
Hits(l) ==
  IF l.read = "ok"
  THEN {k \in 1..Len(l.cached_results) :
          l.cached_results[k] # None /\ l.cached_results[k][1] # ""}
  ELSE {}
\* positions handed to the backend in call c, and by outcome of the call
CallPositions(l, c) == {l.calls[c].batch[k][1] : k \in 1..Len(l.calls[c].batch)}
PositionsOf(l, result) ==
  UNION {CallPositions(l, c) : c \in {d \in 1..Len(l.calls) : l.calls[d].result = result}}
OkPositions(l) == PositionsOf(l, "ok")
FailedPositions(l) == PositionsOf(l, "error")
IdAt(l, k) == l.request.value_ids[k]
SameId(l, k) == {m \in Positions(l) : IdAt(l, m) = IdAt(l, k)}
\* what the backend answers for the text at position k
BackendText(l, k) ==
  translation_text(l.request.texts[k], l.request.source_locale, l.request.target_locale)
IsPlaceholder(s) == \E e \in Errors : s = "[Batch Error: " \o e \o "]"
HasEntry(l, k) == IdAt(l, k) \in DOMAIN l.translations
Entry(l, k) == l.translations[IdAt(l, k)]

Served(l) == Hits(l) \cup OkPositions(l)
\* the value a served position stands for
ServedValue(l, k) == IF k \in Hits(l) THEN l.cached_results[k][1] ELSE BackendText(l, k)
\* every position of the translate queue has gone to the backend
AllBatchesProcessed(l) ==
  OkPositions(l) \cup FailedPositions(l)
    = {l.to_translate[m][1] : m \in 1..Len(l.to_translate)}

\* C2 as stated: when a batch of a finished request failed, every item of
\* that batch has a placeholder in the result map, the other items have
\* their translation, every batch was processed and the response is a
\* success.
C2_EveryFailedItemPlaceholder ==
  \A t \in Tasks :
    LET l == task[t] IN
    (l.pc = "done" /\ FailedPositions(l) # {}) =>
      /\ l.status = 200
      /\ AllBatchesProcessed(l)
      /\ \A k \in FailedPositions(l) : HasEntry(l, k) /\ IsPlaceholder(Entry(l, k))
      /\ \A k \in Served(l) : SameId(l, k) = {k} => Entry(l, k) = ServedValue(l, k)

\* C2 amended: when a batch of a finished request failed, an item of that
\* batch has a placeholder in the result map exactly if no item with the
\* same caller id was served from cache or by a successful batch; otherwise
\* the map holds the value of such an item (the placeholder never replaces
\* an entry, and a later translation replaces a placeholder).  An item that
\* is the only served one of its caller id has its value, every batch was
\* processed and the response is a success.
C2_FailedBatchIsolated ==
  \A t \in Tasks :
    LET l == task[t] IN
    (l.pc = "done" /\ FailedPositions(l) # {}) =>
      /\ l.status = 200
      /\ AllBatchesProcessed(l)
      /\ \A k \in FailedPositions(l) :
           /\ HasEntry(l, k)
           /\ IF SameId(l, k) \cap Served(l) = {}
              THEN IsPlaceholder(Entry(l, k))
              ELSE \E m \in SameId(l, k) \cap Served(l) : Entry(l, k) = ServedValue(l, m)
      /\ \A k \in Served(l) :
           SameId(l, k) \cap Served(l) = {k} => Entry(l, k) = ServedValue(l, k)

\* a finished request whose first batch failed and whose second one did not
C2_Witness ==
  \E t \in Tasks :
    /\ task[t].pc = "done"
    /\ Len(task[t].calls) = 2
    /\ task[t].calls[1].result = "error"
    /\ task[t].calls[2].result = "ok"
    /\ Cardinality(task[t].placeholders) = 2

(* ================================ C3 ================================= *)
\* every translation of the request is a non-empty string
NoEmptyTranslation(l) == \A k \in Positions(l) : BackendText(l, k) # ""
\* the answer to the repeat of a cold, clean request, read from an available
\* store before any entry expired
WarmRepeat(l) == l.round = 2 /\ Responded(l) /\ l.read = "ok" /\ l.intact
\* the repeat was served from the cache alone, with the answer of the first run
ServedFromCache(l) ==
  /\ l.cached_count = NItems(l)
  /\ l.translated_count = 0
  /\ l.calls = <<>>
  /\ l.translations = l.first[1].translations
ColdCounts(l, cached, translated) == cached = 0 /\ translated = NItems(l)

\* C3 as stated: a cold, clean request of N items reports 0 cached and N
\* translated, and its repeat reports N cached and 0 translated with the
\* same translations and no backend call.
C3_WarmRepeatAllHits ==
  \A t \in Tasks :
    LET l == task[t] IN
    /\ (l.round = 1 /\ Responded(l) /\ CleanCold(l)) =>
         ColdCounts(l, l.cached_count, l.translated_count)
    /\ WarmRepeat(l) =>
         /\ ColdCounts(l, l.first[1].cached_count, l.first[1].translated_count)
         /\ ServedFromCache(l)

\* C3 amended: the same, for a request none of whose texts has an empty
\* translation (an empty translation is not written to the store, and its
\* item is a miss again).
C3_WarmRepeatNonEmpty ==
  \A t \in Tasks :
    LET l == task[t] IN
    /\ (l.round = 1 /\ Responded(l) /\ CleanCold(l)) =>
         ColdCounts(l, l.cached_count, l.translated_count)
    /\ WarmRepeat(l) =>
         /\ ColdCounts(l, l.first[1].cached_count, l.first[1].translated_count)
         /\ NoEmptyTranslation(l) => ServedFromCache(l)

\* the repeat of a request of two batches was answered from the cache
C3_Witness ==
  \E t \in Tasks :
    /\ WarmRepeat(task[t])
    /\ NoEmptyTranslation(task[t])
    /\ NItems(task[t]) > batch_size
    /\ task[t].cached_count = NItems(task[t])

(* ================================ C4 ================================= *)
\* the translate queue holds every input item, in input order
QueueIsWholeInput(l) ==
  /\ Len(l.to_translate) = NItems(l)
  /\ \A k \in Positions(l) :
       l.to_translate[k] = <<k, l.request.texts[k], l.request.value_ids[k]>>

\* C4: a request whose bulk read was skipped (no client) or failed has every
\* item in the translate queue and cachedCount 0; when it ends, it ends with
\* a response, every item went to the backend and each value of the result
\* map is the backend's answer for an item of that caller id (or the
\* placeholder of a failed batch), also for tuples the store holds.
C4_ReadDegradesToFullMiss ==
  \A t \in Tasks :
    LET l == task[t] IN
    l.read \in {"skipped", "failed"} =>
      /\ l.cached_count = 0
      /\ QueueIsWholeInput(l)
      /\ l.pc = "done" =>
           /\ l.status = 200
           /\ OkPositions(l) \cup FailedPositions(l) = Positions(l)
           /\ \A k \in OkPositions(l) :
                SameId(l, k) \cap OkPositions(l) = {k} => Entry(l, k) = BackendText(l, k)
           /\ \A k \in Positions(l) :
                \/ IsPlaceholder(Entry(l, k))
                \/ \E m \in SameId(l, k) \cap OkPositions(l) : Entry(l, k) = BackendText(l, m)

\* a response after a failed bulk read, for texts the store held
C4_Witness ==
  \E t \in Tasks :
    /\ Responded(task[t])
    /\ task[t].read = "failed"
    /\ task[t].stored = Positions(task[t])
    /\ NItems(task[t]) > batch_size
    /\ FailedPositions(task[t]) = {}

(* ================================ C5 ================================= *)
\* the request breaks a validation rule (lines 143-159)
Malformed(req) ==
  \/ Len(req.texts) # Len(req.value_ids)
  \/ req.source_locale \notin SUPPORTED_LANGUAGES
  \/ req.target_locale \notin SUPPORTED_LANGUAGES
\* the request did no cache or backend work
Untouched(l) ==
  /\ l.reads = 0 /\ l.writes = 0 /\ l.acquires = 0 /\ l.calls = <<>>
  /\ l.read = "none" /\ l.translations = EmptyDict

\* C5: a malformed request ends with status 400, a well-formed one that
\* arrives while the model is not loaded with 503 (the checks run in this
\* order), and a request that ended with either has done no cache read, no
\* cache write, no semaphore acquisition and no backend call.
\* (is_loaded does not change while a request is answered and not yet
\* dropped, so the value read here is the one the handler saw.)
C5_ValidationFailsFast ==
  \A t \in Tasks :
    LET l == task[t] IN
    l.pc # "idle" =>
      /\ Malformed(l.request) => (l.pc = "done" /\ l.status = 400)
      /\ (~Malformed(l.request) /\ ~is_loaded) => (l.pc = "done" /\ l.status = 503)
      /\ l.status \in {400, 503} => Untouched(l)
      /\ (l.pc = "done" /\ l.status = 200) => (~Malformed(l.request) /\ is_loaded)

\* a malformed request was refused while the store was connected and held
\* an entry
C5_Witness ==
  \E t \in Tasks :
    /\ task[t].pc = "done"
    /\ task[t].status = 400
    /\ NItems(task[t]) > 0
    /\ redis_client
    /\ DOMAIN store # {}

\* a well-formed request was refused because the model was not loaded
C5_Witness503 ==
  \E t \in Tasks :
    /\ task[t].pc = "done"
    /\ task[t].status = 503
    /\ NItems(task[t]) > 0

(* ================================ C6 ================================= *)
\* A call of task t that is in flight (mget, translate_batch, setex)
\* returns or raises.
Completes(t) ==
  \/ MgetReturn(t) \/ MgetFail(t)
  \/ BackendReturn(t) \/ \E e \in Errors : BackendFail(t, e)
  \/ \E j \in 1..batch_size : SetexReturn(t, j) \/ SetexFail(t, j)
\* A coroutine of task t that waits for the semaphore is admitted.
Admitted(t) == AcquireRead(t) \/ \E j \in 1..batch_size : CacheStart(t, j)

\* What the scheduling guarantees: every call in flight eventually returns
\* or raises, and asyncio.Semaphore admits each waiter (it wakes waiters in
\* FIFO order), however often other tasks take the slot in between.  A task
\* has finitely many calls and waiters per request, so fairness per task
\* gives fairness per call.
Fairness ==
  /\ \A t \in Tasks : WF_vars(Completes(t))
  /\ \A t \in Tasks : SF_vars(Admitted(t))

\* Liveness is checked over the requests of 0..MaxItems items that pass
\* validation, with the texts and ids of the overlapping requests, and
\* without the repeat of a request and the expiry of entries (neither is a
\* step of a request, and neither is fair).
LiveRequests ==
  {[texts |-> [k \in 1..n |-> IF k % 2 = 1 THEN "hi" ELSE "yo"],
    value_ids |-> [k \in 1..n |-> k],
    source_locale |-> s, target_locale |-> g] :
     n \in 0..MaxItems,
     s \in SourceLocales \cap SUPPORTED_LANGUAGES,
     g \in TargetLocales \cap SUPPORTED_LANGUAGES}

ArriveLive(t) ==
  /\ task[t].pc = "idle"
  /\ \E req \in Admissible(t) \cap LiveRequests : translate(t, req)

NextLive ==
  \/ \E ping_ok \in BOOLEAN : lifespan(ping_ok)
  \/ lifespan_load_error
  \/ \E t \in Tasks : ArriveLive(t)
  \/ \E t \in Tasks : AcquireRead(t)
  \/ \E t \in Tasks : MgetReturn(t)
  \/ \E t \in Tasks : MgetFail(t)
  \/ \E t \in Tasks : BackendReturn(t)
  \/ \E t \in Tasks : \E e \in Errors : BackendFail(t, e)
  \/ \E t \in Tasks : \E j \in 1..batch_size : CacheStart(t, j)
  \/ \E t \in Tasks : \E j \in 1..batch_size : SetexReturn(t, j)
  \/ \E t \in Tasks : \E j \in 1..batch_size : SetexFail(t, j)
  \/ \E t \in Tasks : Reset(t)

FairSpec == Init /\ [][NextLive]_vars /\ Fairness

\* the request passed validation and the readiness check and is being handled
InProgress(l) == l.pc \in {"acquire", "mget", "to_thread", "gather"}

\* C6: a request that passed validation and the readiness check eventually
\* reaches Respond with a response, whatever the outcomes of its bulk read,
\* its cache writes and its backend calls; it never ends with an error status.
C6_AcceptedRequestResponds ==
  /\ \A t \in Tasks : InProgress(task[t]) ~> Responded(task[t])
  /\ [](\A t \in Tasks :
          (task[t].pc = "done" /\ task[t].read # "none") => task[t].status = 200)

\* a response after a failed bulk read, a failed batch and a failed cache write
C6_Witness ==
  \E t \in Tasks :
    /\ Responded(task[t])
    /\ task[t].read = "failed"
    /\ task[t].write_failed
    /\ FailedPositions(task[t]) # {}

(* ================================ C7 ================================= *)
Max(S) == CHOOSE x \in S : \A y \in S : y <= x
\* Items are resolved in this order: the cache hits by position (lines
\* 190-193), then the misses by position, batch after batch.
LastResolved(l, k) ==
  LET misses == SameId(l, k) \ Hits(l)
  IN IF misses # {} THEN Max(misses) ELSE Max(SameId(l, k))
\* the last position of k's caller id that was served, in the same order
LastServed(l, k) ==
  LET ok == SameId(l, k) \cap OkPositions(l)
  IN IF ok # {} THEN Max(ok) ELSE Max(SameId(l, k) \cap Hits(l))
\* the result map holds the outcome of position m under k's caller id
HoldsOutcomeOf(l, k, m) ==
  IF m \in Served(l) THEN Entry(l, k) = ServedValue(l, m)
  ELSE IsPlaceholder(Entry(l, k))
ResultKeys(l) == {IdAt(l, k) : k \in Positions(l)}

\* C7 as stated: at Respond the result map holds, for each caller id, the
\* outcome (cached value, translation or placeholder) of the last item of
\* that id to be resolved.
C7_LastResolvedWins ==
  \A t \in Tasks :
    LET l == task[t] IN
    Responded(l) =>
      /\ DOMAIN l.translations = ResultKeys(l)
      /\ \A k \in Positions(l) : HoldsOutcomeOf(l, k, LastResolved(l, k))

\* C7 amended: at Respond the result map holds, for each caller id, the
\* value of the last item of that id that was served from cache or by a
\* successful batch; a placeholder is held only if no item of that id was
\* served (the placeholder of a failed batch is written only for an id
\* without an entry, so it never replaces a value).
C7_LastServedWins ==
  \A t \in Tasks :
    LET l == task[t] IN
    Responded(l) =>
      /\ DOMAIN l.translations = ResultKeys(l)
      /\ \A k \in Positions(l) :
           IF SameId(l, k) \cap Served(l) = {}
           THEN IsPlaceholder(Entry(l, k))
           ELSE Entry(l, k) = ServedValue(l, LastServed(l, k))

\* a response where two served items of one caller id differ in value and a
\* later item of that id was in a failed batch
C7_Witness ==
  \E t \in Tasks :
    LET l == task[t] IN
    /\ Responded(l)
    /\ \E k \in FailedPositions(l) :
         \E m, n \in SameId(l, k) \cap Served(l) :
           /\ m < n /\ n < k
           /\ ServedValue(l, m) # ServedValue(l, n)
           /\ Entry(l, k) = ServedValue(l, n)

(* ================================ C8 ================================= *)
\* store commands in flight: bulk reads and writes whose call has been
\* issued and has not returned
ReadsInFlight == {t \in Tasks : task[t].pc = "mget"}
WritesInFlight ==
  {w \in Tasks \X (1..batch_size) :
     /\ task[w[1]].pc = "gather"
     /\ w[2] <= Len(task[w[1]].cache_tasks)
     /\ task[w[1]].cache_tasks[w[2]].pc = "setex"}
InFlight == Cardinality(ReadsInFlight) + Cardinality(WritesInFlight)
\* coroutines suspended on the semaphore
Waiting(t) ==
  \/ task[t].pc = "acquire"
  \/ /\ task[t].pc = "gather"
     /\ \E j \in 1..Len(task[t].cache_tasks) : task[t].cache_tasks[j].pc = "created"

\* C8: the bulk reads and cache writes in flight against the store, over
\* all requests together, never exceed the capacity of the semaphore.
C8_StoreOpsBounded == InFlight <= SEMAPHORE_VALUE

\* the capacity is used up by commands of two requests while a coroutine
\* waits for a slot
C8_Witness ==
  /\ InFlight = SEMAPHORE_VALUE
  /\ \E t, u \in Tasks :
       /\ t # u
       /\ t \in ReadsInFlight \/ \E j \in 1..batch_size : <<t, j>> \in WritesInFlight
       /\ u \in ReadsInFlight \/ \E j \in 1..batch_size : <<u, j>> \in WritesInFlight
  /\ \E t \in Tasks : Waiting(t)

(* ================================ C9 ================================= *)
Ceil(n, b) == (n + b - 1) \div b

\* C9: the backend calls of a request are made on consecutive slices of the
\* translate queue: call c gets the items (c-1)*B+1 .. min(c*B, N), between
\* 1 and B of them, with their texts in the same order; only the last call
\* can be outstanding; and a request that responded has made exactly
\* ceil(N/B) calls, which together cover the queue item by item.
C9_BatchPartition ==
  \A t \in Tasks :
    LET l == task[t]
        q == l.to_translate
        n == Len(q)
        B == batch_size
    IN /\ Len(l.calls) <= Ceil(n, B)
       /\ \A c \in 1..Len(l.calls) :
            LET b == l.calls[c].batch
                last == IF c * B < n THEN c * B ELSE n
            IN /\ Len(b) = last - (c - 1) * B
               /\ Len(b) >= 1 /\ Len(b) <= B
               /\ \A m \in 1..Len(b) : b[m] = q[(c - 1) * B + m]
               /\ Len(l.calls[c].batch_texts) = Len(b)
               /\ \A m \in 1..Len(b) : l.calls[c].batch_texts[m] = b[m][2]
               /\ c < Len(l.calls) => l.calls[c].result # "pending"
       /\ Responded(l) =>
            /\ Len(l.calls) = Ceil(n, B)
            /\ \A m \in 1..n :
                 q[m] = l.calls[((m - 1) \div B) + 1].batch[((m - 1) % B) + 1]
            /\ \A c \in 1..Len(l.calls) : l.calls[c].result # "pending"

\* a response after a full batch and a batch of one item
C9_Witness ==
  \E t \in Tasks :
    /\ Responded(task[t])
    /\ Len(task[t].to_translate) = batch_size + 1
    /\ Len(task[t].calls) = 2
    /\ Len(task[t].calls[2].batch) = 1

(* ================================ C10 ================================ *)
\* positions in the translate queue
QueuePositions(l) == {l.to_translate[m][1] : m \in 1..Len(l.to_translate)}
\* CacheResolve is over and no backend call has returned yet
JustResolved(l) ==
  /\ l.read # "none"
  /\ \A c \in 1..Len(l.calls) : l.calls[c].result = "pending"

\* C10: once CacheResolve is over, every input position is either a hit or
\* in the translate queue and never both; cachedCount is the number of hits;
\* the queue holds the misses with their text and caller id in input order,
\* none repeated; and before the first backend call returns, the result map
\* holds exactly the caller ids of the hits, each with the cached value of
\* the last hit of that id.
C10_Classification ==
  \A t \in Tasks :
    LET l == task[t]
        q == l.to_translate
    IN l.read # "none" =>
         /\ QueuePositions(l) \cap Hits(l) = {}
         /\ QueuePositions(l) \cup Hits(l) = Positions(l)
         /\ l.cached_count = Cardinality(Hits(l))
         /\ \A m \in 1..Len(q) :
              q[m] = <<q[m][1], l.request.texts[q[m][1]], l.request.value_ids[q[m][1]]>>
         /\ \A m \in 1..(Len(q) - 1) : q[m][1] < q[m + 1][1]
         /\ JustResolved(l) =>
              /\ DOMAIN l.translations = {IdAt(l, k) : k \in Hits(l)}
              /\ \A k \in Hits(l) :
                   Entry(l, k) = l.cached_results[Max(SameId(l, k) \cap Hits(l))][1]

\* CacheResolve left a hit between two misses
C10_Witness ==
  \E t \in Tasks :
    LET l == task[t] IN
    /\ JustResolved(l)
    /\ l.pc = "to_thread"
    /\ Hits(l) = {2}
    /\ QueuePositions(l) = {1, 3}

(* ================================ C11 ================================ *)
\* backend calls of the request that have not returned or raised
PendingCalls(l) == {c \in 1..Len(l.calls) : l.calls[c].result = "pending"}
\* cache tasks of the current batch that have not finished
UnfinishedWrites(l) ==
  {j \in 1..Len(l.cache_tasks) : l.cache_tasks[j].pc # "finished"}
\* this step hands a further batch of task t's request to the backend
IssuesNextCall(t) ==
  /\ Len(task[t].calls) >= 1
  /\ Len(task'[t].calls) = Len(task[t].calls) + 1

\* C11: a request has at most one backend call outstanding, and none while
\* cache writes of a batch are unfinished; the step that issues the call
\* for batch k+1 is either the one in which the call for batch k raises or
\* returns without any cache write to make, or the one in which the last
\* unfinished cache write of batch k ends; and a cache write of a batch
\* never waits for another write of that batch: with a free slot it can
\* issue its setex whatever the state of the others.
C11_BatchesSequential ==
  /\ [](\A t \in Tasks :
          LET l == task[t] IN
          /\ Cardinality(PendingCalls(l)) <= 1
          /\ PendingCalls(l) # {} <=> l.pc = "to_thread"
          /\ PendingCalls(l) # {} => UnfinishedWrites(l) = {}
          /\ UnfinishedWrites(l) # {} =>
                (l.pc = "gather" /\ l.calls[Len(l.calls)].result = "ok")
          /\ \A j \in 1..batch_size :
                (/\ l.pc = "gather" /\ j <= Len(l.cache_tasks)
                 /\ l.cache_tasks[j].pc = "created" /\ cache_semaphore > 0)
                  => ENABLED CacheStart(t, j))
  /\ [][\A t \in Tasks :
          IssuesNextCall(t) =>
            LET l == task[t]
                k == Len(l.calls)
            IN /\ task'[t].calls[k].result # "pending"
               /\ task'[t].calls[k + 1].result = "pending"
               /\ \/ l.pc = "to_thread" /\ l.calls[k].result = "pending"
                  \/ /\ l.pc = "gather" /\ l.calls[k].result = "ok"
                     /\ \E j \in 1..Len(l.cache_tasks) :
                          /\ UnfinishedWrites(l) = {j}
                          /\ l.cache_tasks[j].pc = "setex"]_vars

\* two cache writes of the first batch are in flight together while the
\* second batch waits its turn
C11_Witness ==
  \E t \in Tasks :
    LET l == task[t] IN
    /\ l.pc = "gather"
    /\ Len(l.to_translate) > batch_size
    /\ Len(l.calls) = 1
    /\ Len(l.cache_tasks) = 2
    /\ \A j \in 1..2 : l.cache_tasks[j].pc = "setex"

(* ================================ C12 ================================ *)
\* connectivity probes of the health endpoint in flight against the store
PingsInFlight == IF health.pc = "ping" THEN 1 ELSE 0
\* slots of the semaphore that are taken
SlotsHeld == SEMAPHORE_VALUE - cache_semaphore

\* C12 as stated: every store command in flight (bulk read, write with
\* expiry, connectivity probe of the health endpoint) was issued by a
\* coroutine that holds a slot of the semaphore for it, so the commands in
\* flight are never more than the slots taken.
C12_EveryStoreOpHoldsSlot == InFlight + PingsInFlight <= SlotsHeld

(* ================================ C13 ================================ *)
\* the store commands task t's request has in flight
OpsInFlightOf(t) ==
  (IF task[t].pc = "mget" THEN 1 ELSE 0)
    + Cardinality({w \in WritesInFlight : w[1] = t})

\* C13: once the startup ping has failed, it stays failed and the client
\* stays unset; from then on no request waits for or holds a slot, issues a
\* bulk read or creates a cache write, every request that passes validation
\* has all its items in the translate queue, in input order, and none
\* classified as a hit, and every response reports cached_count = 0.  (The
\* store of the model answers whenever it is asked: it is the client that
\* is missing.)
C13_StoreDisabledForLifetime ==
  /\ [](startup_ping = "failed" =>
          /\ ~redis_client
          /\ cache_semaphore = SEMAPHORE_VALUE
          /\ \A t \in Tasks :
               LET l == task[t] IN
               /\ l.pc \notin {"acquire", "mget", "gather"}
               /\ OpsInFlightOf(t) = 0
               /\ l.reads = 0 /\ l.writes = 0 /\ l.acquires = 0
               /\ l.cache_tasks = <<>>
               /\ l.cached_count = 0
               /\ l.read \in {"none", "skipped"}
               /\ l.read = "skipped" => (Hits(l) = {} /\ QueueIsWholeInput(l))
               /\ Responded(l) => l.read = "skipped")
  /\ [][startup_ping = "failed" => startup_ping' = "failed"]_vars

\* with the store disabled, a request of two batches was answered
C13_Witness ==
  /\ startup_ping = "failed"
  /\ \E t \in Tasks :
       /\ Responded(task[t])
       /\ NItems(task[t]) > batch_size
       /\ task[t].translated_count = NItems(task[t])

(* ================================ C14 ================================ *)
\* two items of the request with the same text and different caller ids,
\* both misses whose batch the backend translated
TwinMisses(l, k, m) ==
  /\ k \in OkPositions(l) /\ m \in OkPositions(l)
  /\ k < m
  /\ l.request.texts[k] = l.request.texts[m]
  /\ IdAt(l, k) # IdAt(l, m)
\* the result map holds the translation of position k under k's caller id
ReceivedTranslation(l, k) == HasEntry(l, k) /\ Entry(l, k) = BackendText(l, k)

\* C14 as stated: of two translated cache-miss items with the same text and
\* different caller ids (neither id used by another item), only one
\* receives the translation in the response.
C14_TwinsCollapse ==
  \A t \in Tasks :
    LET l == task[t] IN
    Responded(l) =>
      \A k, m \in Positions(l) :
        (TwinMisses(l, k, m) /\ SameId(l, k) = {k} /\ SameId(l, m) = {m}) =>
          ~(ReceivedTranslation(l, k) /\ ReceivedTranslation(l, m))

\* C14 amended: two translated cache-miss items with the same text and
\* different caller ids keep one entry each in the response: each caller id
\* has an entry, and it holds the translation of the shared text unless a
\* later item of the same caller id was served (then it holds that item's
\* value).  The result map has one entry per distinct caller id.
C14_TwinsKeepTheirIds ==
  \A t \in Tasks :
    LET l == task[t] IN
    Responded(l) =>
      /\ DOMAIN l.translations = ResultKeys(l)
      /\ \A k, m \in Positions(l) :
           TwinMisses(l, k, m) =>
             /\ HasEntry(l, k) /\ HasEntry(l, m)
             /\ LastServed(l, k) = k => ReceivedTranslation(l, k)
             /\ LastServed(l, m) = m => ReceivedTranslation(l, m)
             /\ Entry(l, k) = ServedValue(l, LastServed(l, k))
             /\ Entry(l, m) = ServedValue(l, LastServed(l, m))

\* both caller ids of two items with one text hold its translation
C14_Witness ==
  \E t \in Tasks :
    LET l == task[t] IN
    /\ Responded(l)
    /\ \E k, m \in Positions(l) :
         /\ TwinMisses(l, k, m)
         /\ BackendText(l, k) # ""
         /\ ReceivedTranslation(l, k) /\ ReceivedTranslation(l, m)
         /\ Cardinality(DOMAIN l.translations) = NItems(l)

(* ================================ C15 ================================ *)
\* cache tasks of task t that have not finished
OpenWrites(t) ==
  {task[t].cache_tasks[j] : j \in UnfinishedWrites(task[t])}
\* task t's bulk read returns in this step
ReadReturns(t) == task[t].pc = "mget" /\ task'[t].read = "ok"
\* cache task j of task t has ended without an error since the task's
\* batch began
WroteKey(t, key) ==
  /\ ~task[t].write_failed
  /\ \E j \in 1..Len(task[t].cache_tasks) :
       /\ task[t].cache_tasks[j].pc = "finished"
       /\ task[t].cache_tasks[j].cache_key = key

\* C15: a cache write (created or in flight) to a key the store holds
\* carries the value the store holds; while an entry exists, no step
\* changes it, so a second write of the key, by the same or by another
\* request and in any interleaving, leaves the store as the first write
\* left it; and a bulk read returns, for each key the store holds, the
\* value that was written.
C15_RewriteIsIdempotent ==
  /\ [](\A t \in Tasks : \A w \in OpenWrites(t) :
          w.cache_key \in DOMAIN store =>
            store[w.cache_key].value = w.translated_text)
  /\ [][\A key \in DOMAIN store \cap DOMAIN store' :
          store'[key] = store[key]]_vars
  /\ [][\A t \in Tasks :
          ReadReturns(t) =>
            LET keys == cache_keys(task[t].request) IN
            /\ Len(task'[t].cached_results) = Len(keys)
            /\ \A k \in 1..Len(keys) :
                 IF keys[k] \in DOMAIN store
                 THEN task'[t].cached_results[k] = Some(store[keys[k]].value)
                 ELSE task'[t].cached_results[k] = None]_vars

\* two requests that ran side by side have both written the same key, and
\* the store holds the value either of them wrote
C15_Witness ==
  \E t, u \in Tasks : \E key \in DOMAIN store :
    /\ t # u
    /\ WroteKey(t, key) /\ WroteKey(u, key)
    /\ \E j \in 1..Len(task[t].cache_tasks) :
         /\ task[t].cache_tasks[j].cache_key = key
         /\ store[key].value = task[t].cache_tasks[j].translated_text

(* ================================ C16 ================================ *)
\* C16 as stated: every entry of the store carries the expiry the cache-TTL
\* option of the configuration sets.
C16_ExpiryIsConfiguredTtl ==
  \A key \in DOMAIN store : store[key].ex = CACHE_TTL

(* ================================ C17 ================================ *)
\* value is a non-empty string the backend returns for the tuple of key
IsTranslationFor(key, value) ==
  /\ value # ""
  /\ ~IsPlaceholder(value)
  /\ \E text \in Texts : \E s, g \in SUPPORTED_LANGUAGES :
       /\ key = get_cache_key(text, s, g)
       /\ value = translation_text(text, s, g)

\* C17: every entry of the store holds, under the key of a tuple, the
\* non-empty translation of that tuple; and every cache task of a request
\* was created for an item of its latest batch, whose backend call
\* succeeded, with the key of that item and its non-empty translation.  A
\* placeholder and an empty translation are never written.
C17_StoreHoldsTranslations ==
  /\ \A key \in DOMAIN store : IsTranslationFor(key, store[key].value)
  /\ \A t \in Tasks :
       LET l == task[t] IN
       \A j \in 1..Len(l.cache_tasks) :
         LET w == l.cache_tasks[j]
             call == l.calls[Len(l.calls)]
         IN /\ call.result = "ok"
            /\ IsTranslationFor(w.cache_key, w.translated_text)
            /\ \E m \in 1..Len(call.batch) :
                 /\ w.cache_key = get_cache_key(call.batch[m][2],
                                                l.request.source_locale,
                                                l.request.target_locale)
                 /\ w.translated_text = BackendText(l, call.batch[m][1])
                 /\ w.value_id = call.batch[m][3]

\* a request with an empty translation and a failed batch has been
\* answered, and the store holds the entry of its translated text
C17_Witness ==
  \E t \in Tasks :
    LET l == task[t] IN
    /\ Responded(l)
    /\ l.read = "ok"
    /\ l.placeholders # {}
    /\ \E k \in OkPositions(l) : BackendText(l, k) = ""
    /\ \E k \in OkPositions(l) :
         /\ BackendText(l, k) # ""
         /\ cache_keys(l.request)[k] \in DOMAIN store
    /\ Cardinality(DOMAIN store) = 1

(* ================================ C18 ================================ *)
\* no request is being handled
AllFinished == \A t \in Tasks : task[t].pc \in {"idle", "done"}

\* C18: the free slots and the slots held by the bulk reads and cache
\* writes in flight add up to the capacity; a request holds as many slots
\* as it has store commands in flight, none once its bulk read or cache
\* write has returned or raised; and when no request is being handled every
\* slot is free.
C18_SlotsConserved ==
  /\ cache_semaphore \in 0..SEMAPHORE_VALUE
  /\ cache_semaphore + InFlight = SEMAPHORE_VALUE
  /\ \A t \in Tasks :
       task[t].pc \in {"idle", "acquire", "to_thread", "done"} => OpsInFlightOf(t) = 0
  /\ AllFinished => cache_semaphore = SEMAPHORE_VALUE

\* a request whose bulk read and one of whose cache writes failed has
\* finished after taking three slots, and every slot is free
C18_Witness ==
  /\ AllFinished
  /\ cache_semaphore = SEMAPHORE_VALUE
  /\ \E t \in Tasks :
       /\ task[t].pc = "done"
       /\ task[t].read = "failed"
       /\ task[t].write_failed
       /\ task[t].acquires >= 3

(* ================================ C19 ================================ *)
\* coroutines of task t that wait for a slot
WaitingWrites(t) ==
  IF task[t].pc = "gather"
  THEN {j \in 1..Len(task[t].cache_tasks) : task[t].cache_tasks[j].pc = "created"}
  ELSE {}

\* C19, for every capacity from 1 to SEMAPHORE_VALUE: the slots taken are
\* exactly the bulk reads and cache writes in flight, one each (a step
\* changes the free slots by what it changes the commands in flight), so a
\* coroutine that waits for a slot or for the backend holds none and the
\* slot of the bulk read is back before the first backend call or cache
\* write of its request; a cache write in flight can return without
\* taking a slot, and a coroutine that waits is admitted as soon as a slot
\* is free; so whenever a coroutine waits, a slot is free or a command in
\* flight is about to free one.
C19_NoHoldAndWait ==
  /\ [][cache_semaphore' + InFlight' = cache_semaphore + InFlight]_vars
  /\ [](\A t \in Tasks :
          /\ task[t].pc \in {"acquire", "to_thread"} => OpsInFlightOf(t) = 0
          /\ task[t].pc = "mget" =>
               (task[t].calls = <<>> /\ task[t].cache_tasks = <<>>
                /\ OpsInFlightOf(t) = 1)
          /\ \A j \in 1..batch_size :
               <<t, j>> \in WritesInFlight => ENABLED SetexReturn(t, j)
          /\ (task[t].pc = "acquire" /\ cache_semaphore > 0) => ENABLED AcquireRead(t)
          /\ \A j \in WaitingWrites(t) :
               cache_semaphore > 0 => ENABLED CacheStart(t, j)
          /\ Waiting(t) => (cache_semaphore > 0 \/ InFlight > 0))
  /\ [](cache_semaphore >= 0)

\* with a single slot, one request waits for it while another one's store
\* command holds it
C19_Witness ==
  /\ cache_semaphore = 0
  /\ InFlight = 1
  /\ \E t, u \in Tasks :
       /\ t # u
       /\ Waiting(t) /\ OpsInFlightOf(t) = 0
       /\ OpsInFlightOf(u) = 1

(* ================================ C20 ================================ *)
\* positions handed to the backend so far, over all calls
CalledPositions(l) == UNION {CallPositions(l, c) : c \in 1..Len(l.calls)}
\* positions classified as misses
Misses(l) == Positions(l) \ Hits(l)
\* the texts handed to the backend so far, call after call
RECURSIVE SentTexts(_, _)
SentTexts(l, c) ==
  IF c = 0 THEN <<>> ELSE SentTexts(l, c - 1) \o l.calls[c].batch_texts
\* the texts of the misses, in input order
RECURSIVE MissTexts(_, _)
MissTexts(l, k) ==
  IF k = 0 THEN <<>>
  ELSE IF k \in Misses(l) THEN Append(MissTexts(l, k - 1), l.request.texts[k])
       ELSE MissTexts(l, k - 1)
HitKeys(l) == {cache_keys(l.request)[k] : k \in Hits(l)}

\* C20: once the items of a request are classified, the positions handed to
\* the backend are misses, never hits, and no position is handed over
\* twice; no cache task of the request has the key of a hit, and the
\* request issues at most one write per miss; at Respond the texts handed
\* to the backend, call after call, are exactly the texts of the misses in
\* input order; and a request with items that are all hits responds without
\* a backend call or a cache write, having taken the one slot of its read.
C20_BackendOnlyForMisses ==
  \A t \in Tasks :
    LET l == task[t] IN
    l.read # "none" =>
      /\ CalledPositions(l) \subseteq Misses(l)
      /\ CalledPositions(l) \cap Hits(l) = {}
      /\ \A c, d \in 1..Len(l.calls) :
           c # d => CallPositions(l, c) \cap CallPositions(l, d) = {}
      /\ \A j \in 1..Len(l.cache_tasks) : l.cache_tasks[j].cache_key \notin HitKeys(l)
      /\ l.writes <= Cardinality(CalledPositions(l))
      /\ Responded(l) =>
           /\ CalledPositions(l) = Misses(l)
           /\ SentTexts(l, Len(l.calls)) = MissTexts(l, NItems(l))
      /\ (NItems(l) > 0 /\ Hits(l) = Positions(l)) =>
           (l.pc = "done" /\ l.calls = <<>> /\ l.writes = 0 /\ l.acquires = 1)

\* a response with a hit between two misses: one backend call for the two
\* misses and two cache writes
C20_Witness ==
  \E t \in Tasks :
    LET l == task[t] IN
    /\ Responded(l)
    /\ NItems(l) = 3
    /\ Hits(l) = {2}
    /\ Len(l.calls) = 1
    /\ l.calls[1].batch_texts = <<l.request.texts[1], l.request.texts[3]>>
    /\ l.writes = 2

====
